---- MODULE Spec2Model ----
(***************************************************************************)
(* Model of the AkasaAir order-analysis programs:                          *)
(*   src/analyze_data.py           the SQL-backed path (MySQL store)       *)
(*   src/analyze_data_inmemory.py  the in-memory (DataFrame) path          *)
(*                                                                         *)
(* Abstractions: identifiers, names and mobile numbers are small integers; *)
(* a region is a string, kept as the sequence of its character codes;      *)
(* a timestamp is a day number; an amount is a whole number of cents.      *)
(***************************************************************************)
EXTENDS Integers, Sequences, FiniteSets, TLC

VARIABLES
    custFile,      \* rows of task_DE_new_customers.csv
    ordFile,       \* <order> elements of task_DE_new_orders.xml
    customers_df,  \* the running program's customers DataFrame
    orders_df,     \* the running program's orders DataFrame
    db,            \* committed content of the MySQL tables customers, orders
    clock,         \* wall clock (day number)
    path,          \* which program runs: "mem", "sql", or "none"
    pc,            \* position of the running program in its main()
    current_date,  \* DataProcessor.current_date
    sqlNow,        \* value NOW() took in the KPI 4 statement
    memOut,        \* KPI results produced so far by the in-memory main()
    sqlOut,        \* KPI results produced so far by calculate_kpis()
    logged,        \* what the running program's error handlers logged
    raised,        \* whether the last call ended by raising
    ran,           \* the programs that were started on these files
    calls,         \* consecutive load_data_to_db calls with the same batch
    out            \* result of the last KPI operation applied in isolation

vars == <<custFile, ordFile, customers_df, orders_df, db, clock, path, pc,
          current_date, sqlNow, memOut, sqlOut, logged, raised, ran, calls,
          out>>

(***************************************************************************)
(* Bounds of the model                                                     *)
(***************************************************************************)
MaxCust == 6        \* customers in a generated customers file
MaxLines == 6       \* order lines in a generated orders file
MaxSmallCust == 2   \* rows of an enumerated customers frame
MaxSmallLines == 2  \* rows of an enumerated orders frame
MaxBatchRows == 3   \* rows of the two frames of a batch given to load_data_to_db
Now0 == 60          \* wall clock when a run starts
MaxTicks == 1       \* clock ticks during one behaviour
DaysPerMonth == 30  \* calendar abstraction: days per '%Y-%m' bucket

(***************************************************************************)
(* Program constants                                                       *)
(***************************************************************************)
WindowDays == 30    \* timedelta(days=30), INTERVAL 30 DAY
HeadN == 10         \* .head(10)
LimitN == 5         \* LIMIT 5

None == "None"
NoDb == [customers |-> {}, orders |-> {}]

(***************************************************************************)
(* Generic helpers                                                         *)
(***************************************************************************)
Range(s) == {s[i] : i \in DOMAIN s}

Min2(a, b) == IF a <= b THEN a ELSE b

RECURSIVE SumSet(_, _)
\* sum of f over a finite set S of elements; f is a function on S
SumSet(S, f) ==
    IF S = {} THEN 0
    ELSE LET x == CHOOSE y \in S : TRUE IN f[x] + SumSet(S \ {x}, f)

SeqsUpTo(D, n) == UNION {[1..k -> D] : k \in 0..n}

\* lexicographic order on sequences of integers (Python tuple / str order)
RECURSIVE LexLess(_, _)
LexLess(a, b) ==
    IF a = <<>> THEN b # <<>>
    ELSE IF b = <<>> THEN FALSE
    ELSE IF Head(a) # Head(b) THEN Head(a) < Head(b)
    ELSE LexLess(Tail(a), Tail(b))

\* rows of S as a sequence in ascending order of key[r] (group-by output order)
RECURSIVE AscSeq(_, _)
AscSeq(S, key) ==
    IF S = {} THEN <<>>
    ELSE LET m == CHOOSE x \in S : \A y \in S \ {x} : ~LexLess(key[y], key[x])
         IN <<m>> \o AscSeq(S \ {m}, key)

\* insert row r into the descending-sorted seq s after every row with value >= r's
RECURSIVE InsertDesc(_, _, _)
InsertDesc(s, r, f) ==
    IF s = <<>> THEN <<r>>
    ELSE IF Head(s)[f] >= r[f] THEN <<Head(s)>> \o InsertDesc(Tail(s), r, f)
    ELSE <<r>> \o s

RECURSIVE StableSortDesc(_, _)
StableSortDesc(s, f) ==
    IF s = <<>> THEN <<>>
    ELSE InsertDesc(StableSortDesc(SubSeq(s, 1, Len(s) - 1), f), s[Len(s)], f)

Head_n(s, n) == SubSeq(s, 1, Min2(n, Len(s)))

IsDescending(s, f) == \A i \in 1..(Len(s) - 1) : s[i][f] >= s[i + 1][f]

(***************************************************************************)
(* Strings: a region is the sequence of its character codes (32 = ' ')     *)
(***************************************************************************)
West == <<87>>
East == <<69>>
PadWest == <<32, 87, 32>>

RECURSIVE LStrip(_)
LStrip(s) == IF s # <<>> /\ Head(s) = 32 THEN LStrip(Tail(s)) ELSE s

RECURSIVE RStrip(_)
RStrip(s) ==
    IF s # <<>> /\ s[Len(s)] = 32 THEN RStrip(SubSeq(s, 1, Len(s) - 1)) ELSE s

\* str.strip()
Strip(s) == RStrip(LStrip(s))

\* whether int(text) / pd.to_numeric(text) accepts the text
IsNumeric(text) == text \in {"1", "2"}

\* int(text) / pd.to_numeric(text) of an accepted text
ParseInt(text) == IF text = "1" THEN 1 ELSE 2

\* '%Y-%m' bucket of a day number
Month(t) == t \div DaysPerMonth

(***************************************************************************)
(* In-memory path: loading (analyze_data_inmemory.py)                      *)
(***************************************************************************)
\* DataProcessor.load_customer_data: the cleaned frame
CleanCustomers(file) ==
    [i \in DOMAIN file |-> [file[i] EXCEPT !.region = Strip(@)]]

\* xmltodict.parse(...)['orders']['order'] followed by pd.DataFrame(...):
\* no <order> element gives None (TypeError on subscripting), one element gives
\* a dict of scalars (ValueError in the DataFrame constructor), two or more
\* give a list of dicts, one row each.
XmlFrame(file) ==
    IF Len(file) = 0 THEN [ok |-> FALSE, err |-> "TypeError", df |-> <<>>]
    ELSE IF Len(file) = 1 THEN [ok |-> FALSE, err |-> "ValueError", df |-> <<>>]
    ELSE [ok |-> TRUE, err |-> None, df |-> file]

\* DataProcessor.load_orders_data: type conversion of the frame
CleanOrders(file) ==
    LET x == XmlFrame(file) IN
    IF ~x.ok THEN x
    ELSE IF \E i \in DOMAIN file : ~IsNumeric(file[i].sku_count)
    THEN [ok |-> FALSE, err |-> "ValueError", df |-> <<>>]
    ELSE [ok |-> TRUE, err |-> None,
          df |-> [i \in DOMAIN file |->
                    [file[i] EXCEPT !.sku_count = ParseInt(@)]]]

(***************************************************************************)
(* In-memory path: the four KPIs                                           *)
(***************************************************************************)
\* a merge that ignores the key (how='cross')
merge_cross(odf, cdf) == (DOMAIN odf) \X (DOMAIN cdf)

\* pd.merge(orders, customers, on='mobile_number'): pairs of row positions
merge(odf, cdf) ==
    {p \in (DOMAIN odf) \X (DOMAIN cdf) :
        odf[p[1]].mobile_number = cdf[p[2]].mobile_number}

\* get_repeat_customers counting line items (count() in place of nunique())
get_repeat_customers_count(odf, cdf) ==
    LET merged_df == merge(odf, cdf)
        keys == {<<cdf[p[2]].customer_id, cdf[p[2]].customer_name>> : p \in merged_df}
        grp(k) == {p \in merged_df :
                      <<cdf[p[2]].customer_id, cdf[p[2]].customer_name>> = k}
        rows == {[customer_id |-> k[1], customer_name |-> k[2],
                  order_count |-> Cardinality(grp(k))]
                 : k \in keys}
        grouped == AscSeq(rows, [r \in rows |-> <<r.customer_id, r.customer_name>>])
        repeat == SelectSeq(grouped, LAMBDA r : r.order_count > 1)
    IN StableSortDesc(repeat, "order_count")

\* DataProcessor.get_repeat_customers
get_repeat_customers(odf, cdf) ==
    LET merged_df == merge(odf, cdf)
        keys == {<<cdf[p[2]].customer_id, cdf[p[2]].customer_name>> : p \in merged_df}
        grp(k) == {p \in merged_df :
                      <<cdf[p[2]].customer_id, cdf[p[2]].customer_name>> = k}
        rows == {[customer_id |-> k[1], customer_name |-> k[2],
                  order_count |-> Cardinality({odf[p[1]].order_id : p \in grp(k)})]
                 : k \in keys}
        grouped == AscSeq(rows, [r \in rows |-> <<r.customer_id, r.customer_name>>])
        repeat == SelectSeq(grouped, LAMBDA r : r.order_count > 1)
    IN StableSortDesc(repeat, "order_count")

\* DataProcessor.get_monthly_order_trends
get_monthly_order_trends(odf) ==
    LET months == {Month(odf[i].order_date_time) : i \in DOMAIN odf}
        grp(m) == {i \in DOMAIN odf : Month(odf[i].order_date_time) = m}
        rows == {[month |-> m,
                  total_orders |-> Cardinality({odf[i].order_id : i \in grp(m)}),
                  total_revenue |-> SumSet(grp(m), [i \in grp(m) |-> odf[i].total_amount]),
                  unique_customers |-> Cardinality({odf[i].mobile_number : i \in grp(m)})]
                 : m \in months}
    IN AscSeq(rows, [r \in rows |-> <<r.month>>])

\* get_regional_revenue summing one line item per order
\* (drop_duplicates('order_id') before the sum)
get_regional_revenue_per_order(odf, cdf) ==
    LET merged_df == merge(odf, cdf)
        regions == {cdf[p[2]].region : p \in merged_df}
        grp(g) == {p \in merged_df : cdf[p[2]].region = g}
        first(g) == {p \in grp(g) : \A q \in grp(g) :
                        odf[q[1]].order_id = odf[p[1]].order_id => q[1] >= p[1]}
        rows == {[region |-> g,
                  total_orders |-> Cardinality({odf[p[1]].order_id : p \in grp(g)}),
                  total_revenue |-> SumSet(first(g), [p \in first(g) |-> odf[p[1]].total_amount]),
                  unique_customers |-> Cardinality({cdf[p[2]].customer_id : p \in grp(g)}),
                  avg_order_value |-> <<0, Cardinality({odf[p[1]].order_id : p \in grp(g)})>>]
                 : g \in regions}
        grouped == AscSeq(rows, [r \in rows |-> r.region])
    IN StableSortDesc(grouped, "total_revenue")

\* DataProcessor.get_regional_revenue
get_regional_revenue(odf, cdf) ==
    LET merged_df == merge(odf, cdf)
        regions == {cdf[p[2]].region : p \in merged_df}
        grp(g) == {p \in merged_df : cdf[p[2]].region = g}
        agg(g) == [region |-> g,
                   total_orders |-> Cardinality({odf[p[1]].order_id : p \in grp(g)}),
                   total_revenue |-> SumSet(grp(g), [p \in grp(g) |-> odf[p[1]].total_amount]),
                   unique_customers |-> Cardinality({cdf[p[2]].customer_id : p \in grp(g)})]
        rows == {[region |-> g,
                  total_orders |-> agg(g).total_orders,
                  total_revenue |-> agg(g).total_revenue,
                  unique_customers |-> agg(g).unique_customers,
                  \* total_revenue / total_orders, kept as the exact fraction
                  avg_order_value |-> <<agg(g).total_revenue, agg(g).total_orders>>]
                 : g \in regions}
        grouped == AscSeq(rows, [r \in rows |-> r.region])
    IN StableSortDesc(grouped, "total_revenue")

\* the filter with an exclusive comparison (> cutoff_date)
RecentRows_exclusive(odf, cutoff_date) ==
    {i \in DOMAIN odf : odf[i].order_date_time > cutoff_date}

\* rows of odf taken by the filter orders_df['order_date_time'] >= cutoff_date
RecentRows(odf, cutoff_date) ==
    {i \in DOMAIN odf : odf[i].order_date_time >= cutoff_date}

\* pd.merge(recent_orders, customers, on='mobile_number')
merge_recent(odf, cdf, cutoff_date) ==
    {p \in merge(odf, cdf) : p[1] \in RecentRows(odf, cutoff_date)}

\* DataProcessor.get_top_customers_last_30_days
get_top_customers_last_30_days(odf, cdf, now) ==
    LET cutoff_date == now - WindowDays
        merged_df == merge_recent(odf, cdf, cutoff_date)
        keyOf(p) == <<cdf[p[2]].customer_id, cdf[p[2]].customer_name, cdf[p[2]].region>>
        keys == {keyOf(p) : p \in merged_df}
        grp(k) == {p \in merged_df : keyOf(p) = k}
        rows == {[customer_id |-> k[1], customer_name |-> k[2], region |-> k[3],
                  order_count |-> Cardinality({odf[p[1]].order_id : p \in grp(k)}),
                  total_spend |-> SumSet(grp(k), [p \in grp(k) |-> odf[p[1]].total_amount])]
                 : k \in keys}
        grouped == AscSeq(rows, [r \in rows |->
                                   <<r.customer_id, r.customer_name>> \o r.region])
    IN Head_n(StableSortDesc(grouped, "total_spend"), HeadN)

(***************************************************************************)
(* SQL path: the store (analyze_data.py)                                   *)
(***************************************************************************)
\* an upsert on a customers table whose mobile_number is not UNIQUE
upsert_customer_pk_only(T, r) ==
    LET byPk == {x \in T : x.customer_id = r.customer_id}
    IN [ok |-> TRUE, T |-> (T \ byPk) \cup {r}]

\* INSERT INTO customers ... ON DUPLICATE KEY UPDATE on the table
\*   customers(customer_id PRIMARY KEY, mobile_number UNIQUE):
\* a row with the same primary key is updated in place, and the statement
\* fails when the update gives it the mobile_number of another row; otherwise
\* a row with the same mobile_number is updated in place (its customer_id is
\* not in the update list); otherwise the row is inserted.
upsert_customer(T, r) ==
    LET byPk == {x \in T : x.customer_id = r.customer_id}
        byUk == {x \in T : x.mobile_number = r.mobile_number}
        upd(old) == [old EXCEPT !.customer_name = r.customer_name,
                                !.mobile_number = r.mobile_number,
                                !.region = r.region]
    IN IF byPk # {}
       THEN LET old == CHOOSE x \in byPk : TRUE IN
            IF \E y \in byUk : y # old
            THEN [ok |-> FALSE, T |-> T]
            ELSE [ok |-> TRUE, T |-> (T \ {old}) \cup {upd(old)}]
       ELSE IF byUk # {}
       THEN LET old == CHOOSE x \in byUk : TRUE IN
            [ok |-> TRUE, T |-> (T \ {old}) \cup {upd(old)}]
       ELSE [ok |-> TRUE, T |-> T \cup {r}]

\* INSERT INTO orders ... ON DUPLICATE KEY UPDATE on the table
\*   orders(..., PRIMARY KEY (order_id, sku_id))
upsert_order(T, r) ==
    LET byPk == {x \in T : x.order_id = r.order_id /\ x.sku_id = r.sku_id}
    IN (T \ byPk) \cup {r}

\* the parameter tuple of the orders INSERT: strftime, int(), float()
OrderParams(row) == [row EXCEPT !.sku_count = ParseInt(@)]

\* the customers loop of load_data_to_db from row i on; n statements were
\* executed before it; the failAt-th statement of the call loses the connection
RECURSIVE InsertCustomers(_, _, _, _, _)
InsertCustomers(txn, cdf, i, n, failAt) ==
    IF i > Len(cdf) THEN [status |-> "ok", txn |-> txn, n |-> n]
    ELSE IF failAt = n + 1 THEN [status |-> "mysql_error", txn |-> txn, n |-> n + 1]
    ELSE LET u == upsert_customer(txn.customers, cdf[i]) IN
         IF ~u.ok THEN [status |-> "mysql_error", txn |-> txn, n |-> n + 1]
         ELSE InsertCustomers([txn EXCEPT !.customers = u.T], cdf, i + 1, n + 1, failAt)

\* the orders loop of load_data_to_db
RECURSIVE InsertOrders(_, _, _, _, _)
InsertOrders(txn, odf, i, n, failAt) ==
    IF i > Len(odf) THEN [status |-> "ok", txn |-> txn, n |-> n]
    ELSE IF ~IsNumeric(odf[i].sku_count)
    THEN [status |-> "value_error", txn |-> txn, n |-> n]
    ELSE IF failAt = n + 1 THEN [status |-> "mysql_error", txn |-> txn, n |-> n + 1]
    ELSE InsertOrders([txn EXCEPT !.orders = upsert_order(@, OrderParams(odf[i]))],
                      odf, i + 1, n + 1, failAt)

\* conn.commit(): the transaction's writes become the tables
Commit(committed, txn) == txn

\* a rollback that undoes nothing (a connection with autocommit=True)
Rollback_autocommit(committed, txn) == txn

\* conn.rollback() in the handler of mysql.connector.Error
Rollback(committed, txn) == committed

\* conn.close() on a connection with autocommit=False and an open transaction
\* (any other exception passes the handler; only the finally block runs)
CloseUncommitted(committed, txn) == committed

\* load_data_to_db(customers_df, orders_df) on the store `committed`.
\* connFail: get_connection() raises; failAt: the statement that loses the
\* connection (0: none).
load_data_to_db(committed, cdf, odf, connFail, failAt) ==
    IF connFail
    THEN [status |-> "mysql_error", db |-> committed, n |-> 0]
    ELSE LET c == InsertCustomers(committed, cdf, 1, 0, failAt) IN
         IF c.status # "ok"
         THEN [status |-> c.status, db |-> Rollback(committed, c.txn), n |-> c.n]
         ELSE LET o == InsertOrders(c.txn, odf, 1, c.n, failAt) IN
              IF o.status = "mysql_error"
              THEN [status |-> o.status, db |-> Rollback(committed, o.txn), n |-> o.n]
              ELSE IF o.status = "value_error"
              THEN [status |-> o.status, db |-> CloseUncommitted(committed, o.txn), n |-> o.n]
              ELSE [status |-> "ok", db |-> Commit(committed, o.txn), n |-> o.n]

(***************************************************************************)
(* SQL path: the four KPI statements of calculate_kpis                     *)
(***************************************************************************)
\* FROM customers c JOIN orders o ON c.mobile_number = o.mobile_number
Join(d) ==
    {p \in d.customers \X d.orders : p[1].mobile_number = p[2].mobile_number}

\* ORDER BY f DESC: every order of the rows that is descending in f
\* (the order of rows with equal f is not specified)
RECURSIVE OrderByDesc(_, _)
OrderByDesc(S, f) ==
    IF S = {} THEN {<<>>}
    ELSE UNION {{<<m>> \o t : t \in OrderByDesc(S \ {m}, f)}
                : m \in {x \in S : \A y \in S : x[f] >= y[f]}}

\* SELECT c.customer_name, COUNT(DISTINCT o.order_id) ... HAVING order_count > 1
SqlRepeatCustomers(d) ==
    LET j == Join(d)
        keys == {<<p[1].customer_id, p[1].customer_name>> : p \in j}
        grp(k) == {p \in j : <<p[1].customer_id, p[1].customer_name>> = k}
        rows == {[customer_id |-> k[1], customer_name |-> k[2],
                  order_count |-> Cardinality({p[2].order_id : p \in grp(k)})]
                 : k \in keys}
        having == {r \in rows : r.order_count > 1}
    IN {[i \in DOMAIN s |-> [customer_name |-> s[i].customer_name,
                             order_count |-> s[i].order_count]]
        : s \in OrderByDesc(having, "order_count")}

\* SELECT DATE_FORMAT(order_date_time, '%Y-%m'), COUNT(DISTINCT order_id),
\*        SUM(total_amount) FROM orders GROUP BY 1 ORDER BY month
SqlMonthlyTrends(d) ==
    LET months == {Month(o.order_date_time) : o \in d.orders}
        grp(m) == {o \in d.orders : Month(o.order_date_time) = m}
        rows == {[month |-> m,
                  total_orders |-> Cardinality({o.order_id : o \in grp(m)}),
                  total_revenue |-> SumSet(grp(m), [o \in grp(m) |-> o.total_amount])]
                 : m \in months}
    IN {AscSeq(rows, [r \in rows |-> <<r.month>>])}

\* SELECT c.region, SUM(o.total_amount) ... GROUP BY c.region
SqlRegionalRevenue(d) ==
    LET j == Join(d)
        regions == {p[1].region : p \in j}
        grp(g) == {p \in j : p[1].region = g}
        rows == {[region |-> g,
                  total_revenue |-> SumSet(grp(g), [p \in grp(g) |-> p[2].total_amount])]
                 : g \in regions}
    IN OrderByDesc(rows, "total_revenue")

\* WHERE o.order_date_time >= DATE_SUB(NOW(), INTERVAL 30 DAY)
SqlRecent(j, now) == {p \in j : p[2].order_date_time >= now - WindowDays}

\* SELECT c.customer_name, SUM(o.total_amount) ... ORDER BY total_spend DESC LIMIT 5
SqlTopCustomers(d, now) ==
    LET j == SqlRecent(Join(d), now)
        keys == {<<p[1].customer_id, p[1].customer_name>> : p \in j}
        grp(k) == {p \in j : <<p[1].customer_id, p[1].customer_name>> = k}
        rows == {[customer_id |-> k[1], customer_name |-> k[2],
                  total_spend |-> SumSet(grp(k), [p \in grp(k) |-> p[2].total_amount])]
                 : k \in keys}
    IN {[i \in DOMAIN s |-> [customer_name |-> s[i].customer_name,
                             total_spend |-> s[i].total_spend]]
        : s \in {Head_n(t, LimitN) : t \in OrderByDesc(rows, "total_spend")}}

(***************************************************************************)
(* Inputs                                                                  *)
(***************************************************************************)
Customer(id, mobile, region) ==
    [customer_id |-> id, customer_name |-> id, mobile_number |-> mobile,
     region |-> region]

OrderLine(order, sku, mobile, t, count, amount) ==
    [order_id |-> order, mobile_number |-> mobile, order_date_time |-> t,
     sku_id |-> sku, sku_count |-> count, total_amount |-> amount]

\* order times around the window boundary of a run started at Now0:
\* one day too old, exactly WindowDays old, one day inside
OrderTimes == <<Now0 - WindowDays - 1, Now0 - WindowDays, Now0 - WindowDays + 1>>

\* a customers file of n customers with distinct ids and mobile numbers
GenCustomers(n, pad) ==
    [i \in 1..n |-> Customer(i, i, IF i % 2 = 0 THEN East
                                   ELSE IF pad THEN PadWest ELSE West)]

\* an orders file of n single-line orders spread over the first m mobile
\* numbers; mixed: the order times rotate through OrderTimes; bad: the last
\* line's sku_count is no number
GenOrders(n, m, mixed, bad) ==
    [i \in 1..n |->
        OrderLine(i, 1, 1 + ((i - 1) % m),
                  IF mixed THEN OrderTimes[1 + (i % 3)] ELSE OrderTimes[3],
                  IF bad /\ i = n THEN "x" ELSE "1",
                  100 * i)]

\* the same with the mobile numbers assigned downwards from m
GenOrdersDown(n, m, mixed, bad) ==
    [i \in 1..n |->
        [GenOrders(n, m, mixed, bad)[i] EXCEPT !.mobile_number = m + 1 - @]]

RunCustomerFiles == {GenCustomers(n, pad) : n \in 0..MaxCust, pad \in BOOLEAN}

RunOrderFiles ==
    {GenOrdersDown(n, m, mixed, bad) :
        n \in 0..MaxLines, m \in {2, MaxCust}, mixed \in BOOLEAN, bad \in BOOLEAN}

(***************************************************************************)
(* The programs' runs                                                      *)
(***************************************************************************)
Init ==
    /\ custFile \in RunCustomerFiles
    /\ ordFile \in RunOrderFiles
    /\ customers_df = <<>>
    /\ orders_df = <<>>
    /\ db = NoDb
    /\ clock = Now0
    /\ path = "none"
    /\ pc = "idle"
    /\ current_date = 0
    /\ sqlNow = 0
    /\ memOut = <<>>
    /\ sqlOut = <<>>
    /\ logged = <<>>
    /\ raised = FALSE
    /\ ran = {}
    /\ calls = 0
    /\ out = [op |-> None, val |-> <<>>]

Files == <<custFile, ordFile>>
StoreVars == <<calls>>

\* time passes
Tick ==
    /\ clock < Now0 + MaxTicks
    /\ clock' = clock + 1
    /\ UNCHANGED <<Files, customers_df, orders_df, db, path, pc, current_date,
                   sqlNow, memOut, sqlOut, logged, raised, ran, StoreVars, out>>

\* a logger.error(...) line reporting the exception exc
Log(msg, exc) == [msg |-> msg, exc |-> exc]

MySqlError == "mysql.connector.Error"

\* what get_connection() and main() log when the connection fails
ConnectFailure ==
    <<Log("Error connecting to database", MySqlError),
      Log("Error in main process", MySqlError)>>

\* the except clause of main(): log and re-raise
Fail(msgs) ==
    /\ logged' = logged \o msgs
    /\ raised' = TRUE
    /\ pc' = "failed"

\* -------- analyze_data_inmemory.py: main() --------

\* processor = DataProcessor()
MemConstruct ==
    /\ path = "none" /\ "mem" \notin ran
    /\ path' = "mem"
    /\ ran' = ran \cup {"mem"}
    /\ current_date' = clock
    /\ customers_df' = <<>>
    /\ orders_df' = <<>>
    /\ logged' = <<>>
    /\ raised' = FALSE
    /\ pc' = "load_customers"
    /\ UNCHANGED <<Files, db, clock, sqlNow, memOut, sqlOut, StoreVars, out>>

\* processor.load_customer_data(...)
MemLoadCustomers ==
    /\ path = "mem" /\ pc = "load_customers"
    /\ customers_df' = CleanCustomers(custFile)
    /\ pc' = "load_orders"
    /\ UNCHANGED <<Files, orders_df, db, clock, path, current_date, sqlNow,
                   memOut, sqlOut, logged, raised, ran, StoreVars, out>>

\* processor.load_orders_data(...)
MemLoadOrders ==
    /\ path = "mem" /\ pc = "load_orders"
    /\ LET r == CleanOrders(ordFile) IN
       IF r.ok
       THEN /\ orders_df' = r.df
            /\ pc' = "kpi1"
            /\ UNCHANGED <<logged, raised>>
       ELSE /\ Fail(<<Log("Error loading orders data", r.err),
                      Log("Error in analysis", r.err)>>)
            /\ UNCHANGED orders_df
    /\ UNCHANGED <<Files, customers_df, db, clock, path, current_date, sqlNow,
                   memOut, sqlOut, ran, StoreVars, out>>

MemProduce(at, rows, next) ==
    /\ path = "mem" /\ pc = at
    /\ memOut' = Append(memOut, rows)
    /\ pc' = next
    /\ UNCHANGED <<Files, customers_df, orders_df, db, clock, path, current_date,
                   sqlNow, sqlOut, logged, raised, ran, StoreVars, out>>

MemKpi1 == MemProduce("kpi1", get_repeat_customers(orders_df, customers_df), "kpi2")
MemKpi2 == MemProduce("kpi2", get_monthly_order_trends(orders_df), "kpi3")
MemKpi3 == MemProduce("kpi3", get_regional_revenue(orders_df, customers_df), "kpi4")
MemKpi4 ==
    MemProduce("kpi4",
               get_top_customers_last_30_days(orders_df, customers_df, current_date),
               "done")

\* -------- analyze_data.py: main() --------

\* create_tables(): CREATE TABLE IF NOT EXISTS leaves the rows alone
SqlCreateTables ==
    /\ path = "none" /\ "sql" \notin ran
    /\ path' = "sql"
    /\ ran' = ran \cup {"sql"}
    /\ customers_df' = <<>>
    /\ orders_df' = <<>>
    /\ \E connFail \in BOOLEAN :
         IF connFail
         THEN /\ logged' = ConnectFailure
              /\ raised' = TRUE
              /\ pc' = "failed"
         ELSE /\ logged' = <<>>
              /\ raised' = FALSE
              /\ pc' = "load_customers"
    /\ UNCHANGED <<Files, db, clock, current_date, sqlNow, memOut, sqlOut,
                   StoreVars, out>>

\* customers_df = load_customer_data(...)
SqlLoadCustomers ==
    /\ path = "sql" /\ pc = "load_customers"
    /\ customers_df' = custFile
    /\ pc' = "load_orders"
    /\ UNCHANGED <<Files, orders_df, db, clock, path, current_date, sqlNow,
                   memOut, sqlOut, logged, raised, ran, StoreVars, out>>

\* orders_df = load_orders_data(...)
SqlLoadOrders ==
    /\ path = "sql" /\ pc = "load_orders"
    /\ LET r == XmlFrame(ordFile) IN
       IF r.ok
       THEN /\ orders_df' = r.df
            /\ pc' = "load_db"
            /\ UNCHANGED <<logged, raised>>
       ELSE /\ Fail(<<Log("Error in main process", r.err)>>)
            /\ UNCHANGED orders_df
    /\ UNCHANGED <<Files, customers_df, db, clock, path, current_date, sqlNow,
                   memOut, sqlOut, ran, StoreVars, out>>

\* load_data_to_db(customers_df, orders_df)
SqlLoadDb ==
    /\ path = "sql" /\ pc = "load_db"
    /\ \E connFail \in BOOLEAN, failAt \in 0..(Len(customers_df) + Len(orders_df)) :
         LET r == load_data_to_db(db, customers_df, orders_df, connFail, failAt) IN
         /\ db' = r.db
         /\ IF r.status = "ok"
            THEN /\ pc' = "connect"
                 /\ UNCHANGED <<logged, raised>>
            ELSE IF r.status = "mysql_error"
            THEN Fail(<<Log(IF connFail THEN "Error connecting to database"
                            ELSE "Error loading data into database", MySqlError),
                        Log("Error in main process", MySqlError)>>)
            ELSE Fail(<<Log("Error in main process", "ValueError")>>)
    /\ UNCHANGED <<Files, customers_df, orders_df, clock, path, current_date,
                   sqlNow, memOut, sqlOut, ran, StoreVars, out>>

\* calculate_kpis(): conn = get_connection()
SqlConnect ==
    /\ path = "sql" /\ pc = "connect"
    /\ \E connFail \in BOOLEAN :
         IF connFail
         THEN Fail(ConnectFailure)
         ELSE /\ pc' = "kpi1"
              /\ UNCHANGED <<logged, raised>>
    /\ UNCHANGED <<Files, customers_df, orders_df, db, clock, path, current_date,
                   sqlNow, memOut, sqlOut, ran, StoreVars, out>>

\* one cursor.execute + fetchall + print of calculate_kpis; the statement
\* either loses the connection or returns one of its possible results
SqlProduce(at, results, next) ==
    /\ path = "sql" /\ pc = at
    /\ \E lost \in BOOLEAN :
         IF lost
         THEN /\ Fail(<<Log("Error in main process", MySqlError)>>)
              /\ UNCHANGED sqlOut
         ELSE /\ \E rows \in results : sqlOut' = Append(sqlOut, rows)
              /\ pc' = next
              /\ UNCHANGED <<logged, raised>>
    /\ UNCHANGED <<Files, customers_df, orders_df, db, clock, path, current_date,
                   memOut, ran, StoreVars, out>>

SqlKpi1 == SqlProduce("kpi1", SqlRepeatCustomers(db), "kpi2") /\ UNCHANGED sqlNow
SqlKpi2 == SqlProduce("kpi2", SqlMonthlyTrends(db), "kpi3") /\ UNCHANGED sqlNow
SqlKpi3 == SqlProduce("kpi3", SqlRegionalRevenue(db), "kpi4") /\ UNCHANGED sqlNow
SqlKpi4 ==
    /\ SqlProduce("kpi4", SqlTopCustomers(db, clock), "done")
    /\ sqlNow' = clock

\* the process ends (normally or by the re-raised exception)
Exit ==
    /\ path \in {"mem", "sql"} /\ pc \in {"done", "failed"}
    /\ path' = "none"
    /\ UNCHANGED <<Files, customers_df, orders_df, db, clock, pc, current_date,
                   sqlNow, memOut, sqlOut, logged, raised, ran, StoreVars, out>>

Next ==
    \/ Tick
    \/ MemConstruct \/ MemLoadCustomers \/ MemLoadOrders
    \/ MemKpi1 \/ MemKpi2 \/ MemKpi3 \/ MemKpi4
    \/ SqlCreateTables \/ SqlLoadCustomers \/ SqlLoadOrders \/ SqlLoadDb
    \/ SqlConnect \/ SqlKpi1 \/ SqlKpi2 \/ SqlKpi3 \/ SqlKpi4
    \/ Exit

Spec == Init /\ [][Next]_vars

(***************************************************************************)
(* load_data_to_db called with arbitrary batches on one store              *)
(***************************************************************************)
BatchCustomers == {Customer(id, mobile, West) : id \in 1..2, mobile \in 1..2}

\* two versions of one order line, a second line, and a line whose
\* sku_count is no number
BatchOrders ==
    {OrderLine(1, 1, 1, Now0, "1", 1000), OrderLine(1, 1, 2, Now0, "2", 2500),
     OrderLine(1, 2, 1, Now0, "x", 1000)}

InitStore ==
    /\ custFile = <<>>
    /\ ordFile = <<>>
    /\ customers_df = <<>>
    /\ orders_df = <<>>
    /\ db = NoDb
    /\ clock = Now0
    /\ path = "store"
    /\ pc = "idle"
    /\ current_date = 0
    /\ sqlNow = 0
    /\ memOut = <<>>
    /\ sqlOut = <<>>
    /\ logged = <<>>
    /\ raised = FALSE
    /\ ran = {}
    /\ calls = 0
    /\ out = [op |-> None, val |-> <<>>]

\* the pairs of frames with at most MaxBatchRows rows in all
Batches ==
    {b \in SeqsUpTo(BatchCustomers, MaxBatchRows) \X SeqsUpTo(BatchOrders, MaxBatchRows) :
        Len(b[1]) + Len(b[2]) <= MaxBatchRows}

\* the caller prepares a pair of frames
NewBatch ==
    /\ path = "store" /\ pc = "idle"
    /\ \E b \in Batches : customers_df' = b[1] /\ orders_df' = b[2]
    /\ pc' = "batch"
    /\ calls' = 0
    /\ raised' = FALSE
    /\ logged' = <<>>
    /\ UNCHANGED <<Files, db, clock, path, current_date, sqlNow, memOut,
                   sqlOut, ran, out>>

\* the caller is done with the frames
DropBatch ==
    /\ path = "store" /\ pc = "batch" /\ calls >= 1
    /\ customers_df' = <<>>
    /\ orders_df' = <<>>
    /\ pc' = "idle"
    /\ calls' = 0
    /\ raised' = FALSE
    /\ logged' = <<>>
    /\ UNCHANGED <<Files, db, clock, path, current_date, sqlNow, memOut,
                   sqlOut, ran, out>>

\* load_data_to_db(customers_df, orders_df), called on the current frames,
\* once or twice in a row
CallLoad ==
    /\ path = "store" /\ pc = "batch"
    /\ calls < 2
    /\ calls' = calls + 1
    /\ \E connFail \in BOOLEAN, failAt \in 0..(Len(customers_df) + Len(orders_df)) :
         LET r == load_data_to_db(db, customers_df, orders_df, connFail, failAt) IN
         /\ db' = r.db
         /\ raised' = (r.status # "ok")
         /\ logged' = IF r.status = "mysql_error"
                      THEN <<Log(IF connFail THEN "Error connecting to database"
                                 ELSE "Error loading data into database",
                                 MySqlError)>>
                      ELSE <<>>
    /\ UNCHANGED <<Files, customers_df, orders_df, clock, path, pc, current_date,
                   sqlNow, memOut, sqlOut, ran, out>>

NextStore == NewBatch \/ CallLoad \/ DropBatch

SpecStore == InitStore /\ [][NextStore]_vars

(***************************************************************************)
(* The KPI operations applied to arbitrary small frames                    *)
(***************************************************************************)
SmallCustomers ==
    {Customer(id, mobile, region) :
        id \in 1..2, mobile \in 1..2, region \in {West, PadWest, East}}

\* line items of two orders; the first item of an order is one day older
\* than the window of a run at Now0, the second exactly WindowDays old
SmallOrders ==
    {OrderLine(order, sku, mobile, OrderTimes[sku], "1", 1000 * order + 250 * sku) :
        order \in 1..2, sku \in 1..2, mobile \in 1..2}

CustomerKey(S) == [r \in S |-> <<r.customer_id, r.mobile_number>> \o r.region]
OrderKey(S) == [r \in S |-> <<r.order_id, r.sku_id, r.mobile_number>>]

SmallCustomerFiles ==
    {AscSeq(S, CustomerKey(S)) :
        S \in {T \in SUBSET SmallCustomers : Cardinality(T) <= MaxSmallCust}}

SmallOrderFiles ==
    {AscSeq(S, OrderKey(S)) :
        S \in {T \in SUBSET SmallOrders :
                 Cardinality(T) >= 2 /\ Cardinality(T) <= MaxSmallLines}}

\* the files both programs load without an error
LoadableFiles ==
    (SmallCustomerFiles \X SmallOrderFiles)
    \cup {f \in RunCustomerFiles \X RunOrderFiles : CleanOrders(f[2]).ok}

\* both programs have loaded the same files
InitKpi ==
    /\ \E f \in LoadableFiles : custFile = f[1] /\ ordFile = f[2]
    /\ customers_df = CleanCustomers(custFile)
    /\ orders_df = CleanOrders(ordFile).df
    /\ db = load_data_to_db(NoDb, custFile, XmlFrame(ordFile).df, FALSE, 0).db
    /\ clock = Now0
    /\ path = "kpi"
    /\ pc = "idle"
    /\ current_date = Now0
    /\ sqlNow = 0
    /\ memOut = <<>>
    /\ sqlOut = <<>>
    /\ logged = <<>>
    /\ raised = FALSE
    /\ ran = {}
    /\ calls = 0
    /\ out = [op |-> None, val |-> <<>>]

Apply(op, val) ==
    /\ path = "kpi"
    /\ out.op = None
    /\ out' = [op |-> op, val |-> val]
    /\ UNCHANGED <<Files, customers_df, orders_df, db, clock, path, pc,
                   current_date, sqlNow, memOut, sqlOut, logged, raised, ran,
                   StoreVars>>

ApplyRepeatCustomers ==
    Apply("get_repeat_customers", get_repeat_customers(orders_df, customers_df))
ApplyMonthlyTrends ==
    Apply("get_monthly_order_trends", get_monthly_order_trends(orders_df))
ApplyRegionalRevenue ==
    Apply("get_regional_revenue", get_regional_revenue(orders_df, customers_df))
ApplyTopCustomers ==
    Apply("get_top_customers_last_30_days",
          get_top_customers_last_30_days(orders_df, customers_df, current_date))
QueryRepeatCustomers ==
    \E rows \in SqlRepeatCustomers(db) : Apply("SqlRepeatCustomers", rows)
QueryMonthlyTrends ==
    \E rows \in SqlMonthlyTrends(db) : Apply("SqlMonthlyTrends", rows)
QueryRegionalRevenue ==
    \E rows \in SqlRegionalRevenue(db) : Apply("SqlRegionalRevenue", rows)
QueryTopCustomers ==
    \E rows \in SqlTopCustomers(db, clock) : Apply("SqlTopCustomers", rows)

NextKpi ==
    \/ ApplyRepeatCustomers \/ ApplyMonthlyTrends
    \/ ApplyRegionalRevenue \/ ApplyTopCustomers
    \/ QueryRepeatCustomers \/ QueryMonthlyTrends
    \/ QueryRegionalRevenue \/ QueryTopCustomers

SpecKpi == InitKpi /\ [][NextKpi]_vars

(***************************************************************************)
(* Vocabulary of the properties                                            *)
(***************************************************************************)
RECURSIVE SumField(_, _)
SumField(s, f) == IF s = <<>> THEN 0 ELSE Head(s)[f] + SumField(Tail(s), f)

Times(s, v) == Cardinality({i \in DOMAIN s : s[i] = v})

MemMobiles == {customers_df[j].mobile_number : j \in DOMAIN customers_df}
DbMobiles == {c.mobile_number : c \in db.customers}

\* the frames' window of a run whose reference-now is `now`
InWindow(t, now) == t >= now - WindowDays

\* J pairs exactly the order rows `lines` of orders_df that have a customer
\* with each customer of the same mobile_number
MemJoinOf(J, lines) ==
    /\ {p[1] : p \in J} = {i \in lines : orders_df[i].mobile_number \in MemMobiles}
    /\ \A p \in J : customers_df[p[2]].mobile_number = orders_df[p[1]].mobile_number
    /\ \A i \in lines, j \in DOMAIN customers_df :
         customers_df[j].mobile_number = orders_df[i].mobile_number => <<i, j>> \in J

\* the same for the stored tables
DbJoinOf(J, lines) ==
    /\ {p[2] : p \in J} = {o \in lines : o.mobile_number \in DbMobiles}
    /\ \A p \in J : p[1] \in db.customers /\ p[1].mobile_number = p[2].mobile_number
    /\ \A o \in lines, c \in db.customers :
         c.mobile_number = o.mobile_number => <<c, o>> \in J

MemRecentLines ==
    {i \in DOMAIN orders_df : InWindow(orders_df[i].order_date_time, current_date)}
DbRecentLines == {o \in db.orders : InWindow(o.order_date_time, clock)}

(***************************************************************************)
(* C4 as stated: the joined rows used by KPI 1, KPI 3 and KPI 4 are        *)
(* exactly the order lines whose mobile_number is some customer's, each    *)
(* paired with that customer; unmatched order lines and customers without  *)
(* orders are absent.  (Fails for KPI 4, whose join takes only the order   *)
(* lines of the trailing window.)                                          *)
(***************************************************************************)
C4_JoinAllKpis ==
    /\ MemJoinOf(merge(orders_df, customers_df), DOMAIN orders_df)
    /\ MemJoinOf(merge_recent(orders_df, customers_df, current_date - WindowDays),
                 DOMAIN orders_df)
    /\ DbJoinOf(Join(db), db.orders)
    /\ DbJoinOf(SqlRecent(Join(db), clock), db.orders)

(***************************************************************************)
(* C4 as amended: the joined rows used by KPI 1 and KPI 3 are exactly the  *)
(* order lines whose mobile_number is some customer's, and those used by   *)
(* KPI 4 exactly the ones among them that lie in the trailing window; each *)
(* is paired with the matching customer, an unmatched order line is absent *)
(* and a customer without orders contributes no row.                       *)
(***************************************************************************)
C4_JoinExact ==
    /\ MemJoinOf(merge(orders_df, customers_df), DOMAIN orders_df)
    /\ MemJoinOf(merge_recent(orders_df, customers_df, current_date - WindowDays),
                 MemRecentLines)
    /\ DbJoinOf(Join(db), db.orders)
    /\ DbJoinOf(SqlRecent(Join(db), clock), DbRecentLines)

\* a regional revenue was computed from frames with a matched order line, an
\* unmatched one, a matched line older than the window and an idle customer
C4_Witness ==
    /\ out.op = "get_regional_revenue"
    /\ out.val # <<>>
    /\ \E i \in DOMAIN orders_df : orders_df[i].mobile_number \notin MemMobiles
    /\ \E i \in DOMAIN orders_df :
         /\ orders_df[i].mobile_number \in MemMobiles
         /\ i \notin MemRecentLines
    /\ \E j \in DOMAIN customers_df :
         \A i \in DOMAIN orders_df :
            orders_df[i].mobile_number # customers_df[j].mobile_number
    /\ \E o \in db.orders : o.mobile_number \notin DbMobiles

(***************************************************************************)
(* C5: a customer is in the repeat-customers result iff the customer's     *)
(* joined order lines hold more than one distinct order_id; order_count is *)
(* that number of distinct order_ids; rows come in descending order_count. *)
(***************************************************************************)
MemKeys ==
    {<<customers_df[j].customer_id, customers_df[j].customer_name>> :
        j \in DOMAIN customers_df}

MemOrderIds(k) ==
    {orders_df[i].order_id :
        i \in {i \in DOMAIN orders_df :
                 \E j \in DOMAIN customers_df :
                    /\ <<customers_df[j].customer_id, customers_df[j].customer_name>> = k
                    /\ customers_df[j].mobile_number = orders_df[i].mobile_number}}

DbOrderIds(c) ==
    {o.order_id : o \in {o \in db.orders : o.mobile_number = c.mobile_number}}

C5_RepeatThreshold ==
    /\ out.op = "get_repeat_customers" =>
         /\ \A k \in MemKeys :
              Cardinality(MemOrderIds(k)) > 1
              <=> Cardinality({i \in DOMAIN out.val :
                     <<out.val[i].customer_id, out.val[i].customer_name>> = k}) = 1
         /\ \A i \in DOMAIN out.val :
              /\ <<out.val[i].customer_id, out.val[i].customer_name>> \in MemKeys
              /\ out.val[i].order_count =
                   Cardinality(MemOrderIds(<<out.val[i].customer_id,
                                             out.val[i].customer_name>>))
         /\ IsDescending(out.val, "order_count")
    /\ out.op = "SqlRepeatCustomers" =>
         LET rep == {c \in db.customers : Cardinality(DbOrderIds(c)) > 1}
             row(c) == [customer_name |-> c.customer_name,
                        order_count |-> Cardinality(DbOrderIds(c))]
         IN /\ Len(out.val) = Cardinality(rep)
            /\ \A c \in rep :
                 Times(out.val, row(c)) = Cardinality({x \in rep : row(x) = row(c)})
            /\ IsDescending(out.val, "order_count")

\* two repeat customers with different counts, listed against the order of
\* their ids, beside a customer with a single order
C5_Witness ==
    /\ out.op = "get_repeat_customers"
    /\ Len(out.val) >= 2
    /\ out.val[1].order_count > out.val[2].order_count
    /\ out.val[1].customer_id > out.val[2].customer_id
    /\ \E k \in MemKeys : Cardinality(MemOrderIds(k)) = 0

\* a customer whose two line items belong to one order is left out
C5_WitnessLineItems ==
    /\ out.op = "get_repeat_customers"
    /\ out.val = <<>>
    /\ \E i, j \in DOMAIN orders_df :
         /\ i # j
         /\ orders_df[i].order_id = orders_df[j].order_id
         /\ orders_df[i].mobile_number = orders_df[j].mobile_number
         /\ orders_df[i].mobile_number \in MemMobiles

(***************************************************************************)
(* C8: the total_revenue of all regions adds up to the total_amount of all *)
(* joined order lines; every joined line falls in exactly one region of    *)
(* the result; every region of the result has at least one order.          *)
(***************************************************************************)
C8_RevenueConservation ==
    /\ out.op = "get_regional_revenue" =>
         LET J == {p \in (DOMAIN orders_df) \X (DOMAIN customers_df) :
                      orders_df[p[1]].mobile_number = customers_df[p[2]].mobile_number}
         IN /\ SumField(out.val, "total_revenue")
                 = SumSet(J, [p \in J |-> orders_df[p[1]].total_amount])
            /\ \A p \in J :
                 Cardinality({i \in DOMAIN out.val :
                                out.val[i].region = customers_df[p[2]].region}) = 1
            /\ \A i \in DOMAIN out.val :
                 /\ out.val[i].total_orders >= 1
                 /\ out.val[i].avg_order_value
                      = <<out.val[i].total_revenue, out.val[i].total_orders>>
                 /\ \E p \in J : customers_df[p[2]].region = out.val[i].region
    /\ out.op = "SqlRegionalRevenue" =>
         LET J == {p \in db.customers \X db.orders :
                      p[1].mobile_number = p[2].mobile_number}
         IN /\ SumField(out.val, "total_revenue")
                 = SumSet(J, [p \in J |-> p[2].total_amount])
            /\ \A p \in J :
                 Cardinality({i \in DOMAIN out.val :
                                out.val[i].region = p[1].region}) = 1
            /\ \A i \in DOMAIN out.val :
                 \E p \in J : p[1].region = out.val[i].region

\* two regions with revenue, and a customer's order of two line items
C8_Witness ==
    /\ out.op = "get_regional_revenue"
    /\ Len(out.val) >= 2
    /\ \E i, j \in DOMAIN orders_df :
         /\ i # j
         /\ orders_df[i].order_id = orders_df[j].order_id
         /\ orders_df[i].mobile_number = orders_df[j].mobile_number
         /\ orders_df[i].mobile_number \in MemMobiles

(***************************************************************************)
(* C2: a second load_data_to_db call with the same frames, after a first   *)
(* one that committed, leaves both tables as the first call left them; and *)
(* a committed call adds at most one row per primary key that was not      *)
(* stored before.  (The first part fails for a batch that reuses a stored  *)
(* mobile_number under another customer_id.)                               *)
(***************************************************************************)
NewCustomerIds ==
    {customers_df[i].customer_id : i \in DOMAIN customers_df}
    \ {c.customer_id : c \in db.customers}

NewOrderKeys ==
    {<<orders_df[i].order_id, orders_df[i].sku_id>> : i \in DOMAIN orders_df}
    \ {<<o.order_id, o.sku_id>> : o \in db.orders}

LoadStep == path = "store" /\ calls' = calls + 1

C2_IdempotentIngestion ==
    [][/\ (LoadStep /\ calls >= 1 /\ ~raised) => db' = db
       /\ LoadStep =>
            /\ Cardinality(db'.customers)
                 <= Cardinality(db.customers) + Cardinality(NewCustomerIds)
            /\ Cardinality(db'.orders)
                 <= Cardinality(db.orders) + Cardinality(NewOrderKeys)]_vars

(***************************************************************************)
(* C3: a load_data_to_db call that fails leaves both tables as they were   *)
(* before the call and raises; a call that does not fail has committed the *)
(* batch: every order line's key is stored with the values of the last     *)
(* line of that key, and the last customer row's values are stored.        *)
(***************************************************************************)
LastOfKey(i) ==
    \A j \in DOMAIN orders_df :
        (orders_df[j].order_id = orders_df[i].order_id
         /\ orders_df[j].sku_id = orders_df[i].sku_id) => j <= i

C3_BatchAtomicity ==
    [][LoadStep =>
         IF raised'
         THEN db' = db
         ELSE /\ \A i \in DOMAIN orders_df :
                   LastOfKey(i) => OrderParams(orders_df[i]) \in db'.orders
              /\ customers_df # <<>> =>
                   \E c \in db'.customers :
                      LET r == customers_df[Len(customers_df)] IN
                      /\ c.mobile_number = r.mobile_number
                      /\ c.customer_name = r.customer_name
                      /\ c.region = r.region
              /\ (db.customers = {} /\ \A i, j \in DOMAIN customers_df :
                     i # j => /\ customers_df[i].customer_id # customers_df[j].customer_id
                              /\ customers_df[i].mobile_number # customers_df[j].mobile_number)
                   => db'.customers = Range(customers_df)]_vars

\* a first call wrote its customers and an order line, then failed converting
\* the second order line: nothing of the batch is stored
C3_Witness ==
    /\ path = "store" /\ calls = 1 /\ raised
    /\ logged = <<>>
    /\ Len(customers_df) >= 1
    /\ Len(orders_df) = 2
    /\ orders_df[1].sku_count # "x" /\ orders_df[2].sku_count = "x"
    /\ \A c \in db.customers : c.customer_id # customers_df[1].customer_id
    /\ db.orders = {}

(***************************************************************************)
(* C9: at all times no two stored customers share a customer_id, no two    *)
(* share a mobile_number, and no two stored order lines share both         *)
(* order_id and sku_id.                                                    *)
(***************************************************************************)
C9_StoreUniqueness ==
    /\ \A x, y \in db.customers :
         (x.customer_id = y.customer_id \/ x.mobile_number = y.mobile_number)
            => x = y
    /\ \A x, y \in db.orders :
         (x.order_id = y.order_id /\ x.sku_id = y.sku_id) => x = y

\* a committed batch held a record with a stored mobile_number under another
\* customer_id, and an order line with a stored key and other values
C9_Witness ==
    /\ path = "store" /\ calls >= 1 /\ ~raised
    /\ \E i \in DOMAIN customers_df : \E c \in db.customers :
         /\ c.mobile_number = customers_df[i].mobile_number
         /\ c.customer_id # customers_df[i].customer_id
    /\ \E i \in DOMAIN orders_df : \E o \in db.orders :
         /\ o.order_id = orders_df[i].order_id /\ o.sku_id = orders_df[i].sku_id
         /\ o.mobile_number # orders_df[i].mobile_number

(***************************************************************************)
(* Vocabulary of the properties of a run                                   *)
(***************************************************************************)
Running == path \in {"mem", "sql"}
Ended == Running /\ pc \in {"done", "failed"}
Produced == IF path = "mem" THEN memOut ELSE sqlOut

\* the rows of s restricted to the columns `fields`
Proj(s, fields) == [i \in DOMAIN s |-> [f \in fields |-> s[i][f]]]

\* the same rows, each the same number of times
SameRows(a, b) ==
    /\ Len(a) = Len(b)
    /\ \A i \in DOMAIN a : Times(a, a[i]) = Times(b, a[i])

BothDone == Len(memOut) = 4 /\ Len(sqlOut) = 4

\* every region of the customers file is written without surrounding blanks
TrimmedInput == \A i \in DOMAIN custFile : custFile[i].region = Strip(custFile[i].region)

KpisAgree ==
    /\ SameRows(Proj(memOut[1], {"customer_name", "order_count"}), sqlOut[1])
    /\ SameRows(Proj(memOut[2], {"month", "total_orders", "total_revenue"}), sqlOut[2])
    /\ SameRows(Proj(memOut[3], {"region", "total_revenue"}), sqlOut[3])
    /\ SameRows(Proj(memOut[4], {"customer_name", "total_spend"}), sqlOut[4])

(***************************************************************************)
(* C1: from the same files and the same reference-now, the in-memory path  *)
(* and the SQL path produce the same rows for each of the four KPIs (on    *)
(* the columns both report), the top-N cutoff of KPI 4 included.  Stated   *)
(* for customers files whose regions are already trimmed, with distinct    *)
(* ids and mobile numbers.  (Fails: LIMIT 5 against head(10).)             *)
(***************************************************************************)
C1_DualPathConsistency ==
    (BothDone /\ current_date = sqlNow /\ TrimmedInput) => KpisAgree

\* the two paths do agree whenever at most LimitN customers are in the window
C1_AgreeBelowLimit ==
    (BothDone /\ current_date = sqlNow /\ TrimmedInput /\ Len(memOut[4]) <= LimitN)
        => KpisAgree

(***************************************************************************)
(* C6: the trailing window of KPI 4 is cut at one value per run,           *)
(* reference-now - 30 days, reference-now being captured once; an order    *)
(* line counts for KPI 4 iff its order_date_time >= that cutoff, so a line *)
(* exactly 30 days old counts.                                             *)
(***************************************************************************)
MemQualifying(j) ==
    {i \in DOMAIN orders_df :
        /\ orders_df[i].mobile_number = customers_df[j].mobile_number
        /\ orders_df[i].order_date_time >= current_date - WindowDays}

DbQualifying(c) ==
    {o \in db.orders :
        /\ o.mobile_number = c.mobile_number
        /\ o.order_date_time >= sqlNow - WindowDays}

C6_MemWindow ==
    (path = "mem" /\ pc = "done") =>
        LET top == memOut[4]
            G == {j \in DOMAIN customers_df : MemQualifying(j) # {}}
        IN IF Cardinality(G) <= HeadN
           THEN /\ Len(top) = Cardinality(G)
                /\ \A j \in G : \E k \in DOMAIN top :
                     /\ top[k].customer_id = customers_df[j].customer_id
                     /\ top[k].total_spend =
                          SumSet(MemQualifying(j),
                                 [i \in MemQualifying(j) |-> orders_df[i].total_amount])
           ELSE Len(top) = HeadN

C6_SqlWindow ==
    (path = "sql" /\ pc = "done") =>
        LET top == sqlOut[4]
            G == {c \in db.customers : DbQualifying(c) # {}}
            row(c) == [customer_name |-> c.customer_name,
                       total_spend |-> SumSet(DbQualifying(c),
                                              [o \in DbQualifying(c) |-> o.total_amount])]
        IN /\ Now0 <= sqlNow /\ sqlNow <= clock
           /\ \A k \in DOMAIN top : \E c \in G : top[k] = row(c)
           /\ IF Cardinality(G) <= LimitN
              THEN /\ Len(top) = Cardinality(G)
                   /\ \A c \in G : \E k \in DOMAIN top : top[k] = row(c)
              ELSE Len(top) = LimitN

C6_WindowBoundary ==
    /\ [](C6_MemWindow /\ C6_SqlWindow)
    /\ [][/\ path = "mem" => current_date' = current_date
          /\ sqlNow # 0 => sqlNow' = sqlNow]_vars

\* an in-memory run ended after the clock had moved on; a customer whose only
\* line in the window is exactly WindowDays older than the captured
\* reference-now is listed, and a line one day older is left out
C6_Witness ==
    /\ path = "mem" /\ pc = "done"
    /\ clock > current_date
    /\ \E j \in DOMAIN customers_df :
         /\ MemQualifying(j) # {}
         /\ \A i \in MemQualifying(j) :
              orders_df[i].order_date_time = current_date - WindowDays
         /\ \E k \in DOMAIN memOut[4] :
              memOut[4][k].customer_id = customers_df[j].customer_id
    /\ \E j \in DOMAIN customers_df, i \in DOMAIN orders_df :
         /\ orders_df[i].mobile_number = customers_df[j].mobile_number
         /\ orders_df[i].order_date_time = current_date - WindowDays - 1
         /\ MemQualifying(j) = {}

(***************************************************************************)
(* C7: with an empty customers collection and an empty orders collection a *)
(* run (whose database does not fail) raises nothing and produces four     *)
(* empty KPI results; when no order line matches a customer, KPI 1, 3 and  *)
(* 4 are empty and KPI 2 is computed over the orders alone.  (The first    *)
(* part fails: load_orders_data raises on an orders file without orders.)  *)
(***************************************************************************)
NoDbFailure == \A k \in DOMAIN logged : logged[k].exc # MySqlError

NoMatch ==
    \A i \in DOMAIN ordFile, j \in DOMAIN custFile :
        ordFile[i].mobile_number # custFile[j].mobile_number

C7_EmptyInput ==
    /\ (Ended /\ custFile = <<>> /\ ordFile = <<>> /\ NoDbFailure) =>
          /\ pc = "done" /\ ~raised
          /\ Len(Produced) = 4
          /\ \A k \in 1..4 : Produced[k] = <<>>
    /\ (Ended /\ pc = "done" /\ NoMatch) =>
          /\ Produced[1] = <<>> /\ Produced[3] = <<>> /\ Produced[4] = <<>>
          /\ {Produced[2][k].month : k \in DOMAIN Produced[2]}
               = {Month(ordFile[i].order_date_time) : i \in DOMAIN ordFile}
          /\ SumField(Produced[2], "total_revenue") = SumField(ordFile, "total_amount")

(***************************************************************************)
(* C10: a run ends either with all four KPI results and no error, or with  *)
(* an error logged and raised and no KPI row reported; KPIs are produced   *)
(* only after both files are loaded and, in the SQL path, after the batch  *)
(* is committed.  (Fails: calculate_kpis prints each KPI before it         *)
(* executes the next statement.)                                           *)
(***************************************************************************)
C10_RunAtomicity ==
    Running =>
        /\ pc = "done" => Len(Produced) = 4 /\ ~raised /\ logged = <<>>
        /\ pc = "failed" =>
             /\ raised /\ logged # <<>>
             /\ \A k \in DOMAIN Produced : Produced[k] = <<>>
        /\ pc \notin {"done", "failed"} => ~raised /\ Len(Produced) < 4
        /\ Produced # <<>> =>
             /\ Len(customers_df) = Len(custFile)
             /\ Len(orders_df) = Len(ordFile) /\ ordFile # <<>>
        /\ (path = "sql" /\ sqlOut # <<>>) =>
             /\ \A i \in DOMAIN orders_df : OrderParams(orders_df[i]) \in db.orders
             /\ \A i \in DOMAIN customers_df : customers_df[i] \in db.customers

\* the same for the in-memory main(), where it holds
C10_MemRunAtomicity == path = "mem" => C10_RunAtomicity

====
